---- MODULE Spec2Model ----
(***************************************************************************)
(* Model of InteractiveHtmlBom/ecad/kicad_ipc.py: KiCadIPCParser, the      *)
(* translation of a KiCad board obtained over the IPC API into the pcbdata *)
(* document of InteractiveHtmlBom.                                         *)
(*                                                                         *)
(* Python dicts are records holding exactly the keys the code sets; lists  *)
(* are sequences; None is the record None.  A method is an operator that   *)
(* returns [ret |-> its return value, log |-> the diagnostics it emitted]. *)
(***************************************************************************)
EXTENDS Integers, Sequences, FiniteSets, TLC

VARIABLES
    board,       \* self.board: what the board collaborator reports
    footprints,  \* self.footprints
    config,      \* self.config: include_nets, include_tracks
    pc,          \* position of the running method
    call,        \* arguments of the method under way
    drawings,    \* parse: the local list `drawings`
    edges,       \* parse: the local `edges`
    bbox,        \* parse: the local `bbox`
    pcbdata,     \* parse: the document under construction
    ret,         \* return value of the method, None before it returns
    log          \* diagnostics emitted through self.logger, in order

vars == <<board, footprints, config, pc, call, drawings, edges, bbox, pcbdata, ret, log>>

\* ------------------------------------------------------------------ values

\* Python's None
None == [isNone |-> TRUE]

\* parse returns the pair (pcbdata, components): the record [pcbdata, components],
\* the list of components held as [list |-> <<...>>]

\* the state of `ret` while no method has returned
NotReturned == [notReturned |-> TRUE]

\* kipy.board_types.BoardLayer values the parser tests for, and one it does not
BL_Edge_Cuts == "BL_Edge_Cuts"
BL_F_SilkS == "BL_F_SilkS"
BL_B_SilkS == "BL_B_SilkS"
BL_F_Fab == "BL_F_Fab"
BL_B_Fab == "BL_B_Fab"
BL_F_Cu == "BL_F_Cu"
BL_B_Cu == "BL_B_Cu"
BL_In1_Cu == "BL_In1_Cu"

\* one diagnostic of self.logger
LogEntry(level, msg) == [level |-> level, msg |-> msg]

\* concatenation of a sequence of sequences, in order
RECURSIVE Flatten(_)
Flatten(ss) == IF ss = <<>> THEN <<>> ELSE Head(ss) \o Flatten(Tail(ss))

\* the dict d after d[key] = val
SetKey(d, key, val) == [k \in DOMAIN d \cup {key} |-> IF k = key THEN val ELSE d[k]]

\* key in d
HasKey(d, key) == key \in DOMAIN d

\* ------------------------------------------------------- unit normalisation

\* a length in mm as a decimal: mant * 10^exp
Scaled(mant, exp) == [mant |-> mant, exp |-> exp]

\* normalize(point) for an int or float: point * 1e-6
normalize(value) == Scaled(value, -6)

\* normalize(point) for a Vector2: [point.x * 1e-6, point.y * 1e-6]
normalize_vec(point) == <<Scaled(point[1], -6), Scaled(point[2], -6)>>

\* normalize_angle for an int or float, in tenths of a degree: angle * 0.1
normalize_angle_raw(angle) == Scaled(angle, -1)

\* normalize_angle for a kipy Angle: angle.degrees
normalize_angle(angle) == angle.degrees

\* math.degrees applied to an angle in radians
degrees(a) == [degrees_of |-> a]

\* ---------------------------------------------------------------- polygons

\* parse_polygon: p is a PolygonWithHoles [isPolygon |-> FALSE, outline |-> nodes]
\* or a Polygon [isPolygon |-> TRUE, polygons |-> <<PolygonWithHoles, ...>>], of
\* which polygons[0] is walked.  A point node appends its normalised point, an
\* arc node logs a warning and appends nothing.
RECURSIVE walk_nodes(_)
walk_nodes(nodes) ==
    IF nodes = <<>> THEN [ret |-> <<>>, log |-> <<>>]
    ELSE LET node == Head(nodes)
             rest == walk_nodes(Tail(nodes))
         IN  IF node.kind = "point"
             THEN [ret |-> <<normalize_vec(node.point)>> \o rest.ret, log |-> rest.log]
             ELSE IF node.kind = "arc"
             THEN [ret |-> rest.ret,
                   log |-> <<LogEntry("warn", "Arcs in polygons are not supported in IPC prototype")>>
                           \o rest.log]
             ELSE rest

parse_polygon(p) ==
    walk_nodes(IF p.isPolygon THEN p.polygons[1].outline ELSE p.outline)

\* svgpath.create_path: the path string built from the stroke segments
create_path(segments) == [path_of |-> segments]

\* parse_text: d is a BoardText or a BoardTextBox; d.shapes is what
\* kicad.get_text_as_shapes delivers for it (shapes[0])
parse_text(d) ==
    LET offset == IF d.kind = "BoardText" THEN d.position ELSE d.top_left
        segs == SelectSeq(d.shapes, LAMBDA s : s.kind = "Segment")
        polys == SelectSeq(d.shapes, LAMBDA s : s.kind = "Polygon")
        segments == [i \in 1..Len(segs) |->
                       <<normalize_vec(<<segs[i].start[1] + offset[1], segs[i].start[2] + offset[2]>>),
                         normalize_vec(<<segs[i].end[1] + offset[1], segs[i].end[2] + offset[2]>>)>>]
        moved(s) == [isPolygon |-> TRUE,
                     polygons |-> <<[outline |->
                        [j \in 1..Len(s.polygons[1].outline) |->
                           LET n == s.polygons[1].outline[j]
                           IN  IF n.kind = "point"
                               THEN [n EXCEPT !.point = <<n.point[1] + offset[1], n.point[2] + offset[2]>>]
                               ELSE n]]>>]
        parsed == [i \in 1..Len(polys) |-> parse_polygon(moved(polys[i]))]
    IN  [ret |-> IF segments # <<>>
                 THEN [thickness |-> normalize(d.stroke_width), svgpath |-> create_path(segments)]
                 ELSE [polygons |-> [i \in 1..Len(parsed) |-> parsed[i].ret]],
         log |-> Flatten([i \in 1..Len(parsed) |-> parsed[i].log])]

\* ------------------------------------------------------------------ shapes

\* the drawable classes parse_shape dispatches on
ShapeClasses == {"BoardSegment", "BoardCircle", "BoardArc", "BoardPolygon",
                 "BoardBezier", "BoardRectangle"}
TextClasses == {"BoardText", "BoardTextBox"}
SupportedClasses == ShapeClasses \cup TextClasses \cup {"Field"}

\* int(d.attributes.fill.filled)
int_of_bool(b) == IF b THEN 1 ELSE 0

\* the fall-through of parse_shape without its diagnostic
unsupported_shape_silent(d) == [ret |-> None, log |-> <<>>]

\* the fall-through of parse_shape: one info diagnostic, None
unsupported_shape(d) ==
    [ret |-> None, log |-> <<LogEntry("info", "Unsupported shape, skipping")>>]

\* parse_shape: one branch per isinstance test, the fall-through logs and
\* returns None
parse_shape(d) ==
    IF d.kind = "BoardSegment" THEN
        [ret |-> [type |-> "segment",
                  start |-> normalize_vec(d.start),
                  end |-> normalize_vec(d.end),
                  width |-> normalize(d.stroke_width)],
         log |-> <<>>]
    ELSE IF d.kind = "BoardCircle" THEN
        [ret |-> [type |-> "circle",
                  start |-> normalize_vec(d.center),
                  radius |-> normalize(d.radius),
                  width |-> normalize(d.stroke_width),
                  filled |-> int_of_bool(d.filled)],
         log |-> <<>>]
    ELSE IF d.kind = "BoardArc" THEN
        [ret |-> [type |-> "arc",
                  start |-> normalize_vec(d.center),
                  radius |-> normalize(d.radius),
                  startangle |-> IF d.start_angle # None THEN degrees(d.start_angle) ELSE None,
                  endangle |-> IF d.end_angle # None THEN degrees(d.end_angle) ELSE None,
                  width |-> normalize(d.stroke_width)],
         log |-> <<>>]
    ELSE IF d.kind = "BoardPolygon" THEN
        LET parsed == [i \in 1..Len(d.polygons) |-> parse_polygon(d.polygons[i])]
            contours == [i \in 1..Len(parsed) |-> parsed[i].ret]
        IN  [ret |-> IF ~d.filled
                     THEN [type |-> "polygon", pos |-> <<0, 0>>, angle |-> 0,
                           polygons |-> contours,
                           filled |-> 0, width |-> normalize(d.stroke_width)]
                     ELSE [type |-> "polygon", pos |-> <<0, 0>>, angle |-> 0,
                           polygons |-> contours],
             log |-> Flatten([i \in 1..Len(parsed) |-> parsed[i].log])]
    ELSE IF d.kind = "BoardBezier" THEN
        [ret |-> [type |-> "curve",
                  start |-> normalize_vec(d.start),
                  cpa |-> normalize_vec(d.control1),
                  cpb |-> normalize_vec(d.control2),
                  end |-> normalize_vec(d.end),
                  width |-> normalize(d.stroke_width)],
         log |-> <<>>]
    ELSE IF d.kind = "BoardRectangle" THEN
        LET start == normalize_vec(d.top_left)
            end == normalize_vec(d.bottom_right)
            points == <<start, <<end[1], start[2]>>, end, <<start[1], end[2]>> >>
        IN  [ret |-> [type |-> "polygon", pos |-> <<0, 0>>, angle |-> 0,
                      polygons |-> <<points>>,
                      width |-> normalize(d.stroke_width),
                      filled |-> int_of_bool(d.filled)],
             log |-> <<>>]
    ELSE IF d.kind \in {"BoardText", "BoardTextBox"} THEN
        parse_text(d)
    ELSE IF d.kind = "Field" THEN
        parse_text(d.text)
    ELSE
        unsupported_shape(d)

\* ------------------------------------------------------------------- edges

\* Box2.merge that keeps the box merged in last
Box2_merge_last(a, b) == b

\* Box2.merge: the smallest box that holds both
Box2_merge(a, b) ==
    LET min(x, y) == IF x <= y THEN x ELSE y
        max(x, y) == IF x >= y THEN x ELSE y
        x0 == min(a.pos[1], b.pos[1])
        y0 == min(a.pos[2], b.pos[2])
        x1 == max(a.pos[1] + a.size[1], b.pos[1] + b.size[1])
        y1 == max(a.pos[2] + a.size[2], b.pos[2] + b.size[2])
    IN  [pos |-> <<x0, y0>>, size |-> <<x1 - x0, y1 - y0>>]

\* parse_edges, first loop: every footprint's definition shapes are appended to
\* the caller's list
append_definition_shapes(dr, fps) ==
    dr \o Flatten([i \in 1..Len(fps) |-> fps[i].definition.shapes])

\* parse_edges, second loop, over the list ds with edges and bbox so far
RECURSIVE collect_edges(_, _, _, _)
collect_edges(ds, es, bb, lg) ==
    IF ds = <<>> THEN [edges |-> es, bbox |-> bb, log |-> lg]
    ELSE LET d == Head(ds)
         IN  IF d.layer = BL_Edge_Cuts
             THEN LET t == parse_shape(d)
                  IN  collect_edges(Tail(ds), Append(es, t.ret),
                                    IF bb = None THEN d.bounding_box
                                    ELSE Box2_merge(bb, d.bounding_box),
                                    lg \o t.log)
             ELSE collect_edges(Tail(ds), es, bb, lg)

\* parse_edges that works on a copy of the list of its caller
parse_edges_on_copy(dr, fps) ==
    LET all == append_definition_shapes(dr, fps)
        r == collect_edges(all, <<>>, None, <<>>)
    IN  [edges |-> r.edges, bbox |-> r.bbox, drawings |-> dr, log |-> r.log]

\* parse_edges(drawings): the edges, the bbox, the list `drawings` as the call
\* leaves it, and the log
parse_edges(dr, fps) ==
    LET all == append_definition_shapes(dr, fps)
        r == collect_edges(all, <<>>, None, <<>>)
    IN  [edges |-> r.edges, bbox |-> r.bbox, drawings |-> all, log |-> r.log]

\* footprint_to_component
footprint_to_component(footprint, extra_fields) ==
    [ref |-> footprint.reference,
     val |-> footprint.value,
     footprint |-> footprint.definition.id,
     layer |-> IF footprint.layer = BL_F_Cu THEN "F"
               ELSE IF footprint.layer = BL_B_Cu THEN "B" ELSE None,
     attr |-> IF footprint.exclude_from_bill_of_materials THEN "Virtual" ELSE "Normal",
     extra_fields |-> extra_fields]

\* -------------------------------------------------------------------- pads

\* the shape table of parse_pad: PadStackShape -> tag, "" for any other code
pad_shape_tag(shape) ==
    IF shape = "PSS_CIRCLE" THEN "circle"
    ELSE IF shape = "PSS_OVAL" THEN "oval"
    ELSE IF shape = "PSS_RECTANGLE" THEN "rect"
    ELSE IF shape = "PSS_TRAPEZOID" THEN "trapezoid"
    ELSE IF shape = "PSS_ROUNDRECT" THEN "roundrect"
    ELSE IF shape = "PSS_CUSTOM" THEN "custom"
    ELSE IF shape = "PSS_CHAMFEREDRECT" THEN "chamfrect"
    ELSE ""

\* parse_chamfered_corners
parse_chamfered_corners(corners) ==
    (IF corners.top_left THEN 1 ELSE 0) + (IF corners.top_right THEN 2 ELSE 0)
    + (IF corners.bottom_left THEN 4 ELSE 0) + (IF corners.bottom_right THEN 8 ELSE 0)

\* size[i] / 2 +- delta[j] / 2 in mm, for size and delta in nm: the sum of the
\* two nm values times 5e-7
half_sum(a, b) == Scaled(5 * (a + b), -7)

\* trapezoid_corners without the delta
trapezoid_corners_of_rect(size, delta) ==
    << <<half_sum(size[1], 0), half_sum(size[2], 0)>>,
       <<half_sum(0 - size[1], 0), half_sum(size[2], 0)>>,
       <<half_sum(0 - size[1], 0), half_sum(0 - size[2], 0)>>,
       <<half_sum(size[1], 0), half_sum(0 - size[2], 0)>> >>

\* the four corners of a trapezoid pad
trapezoid_corners(size, delta) ==
    << <<half_sum(size[1], delta[2]), half_sum(size[2], 0 - delta[1])>>,
       <<half_sum(0 - size[1], 0 - delta[2]), half_sum(size[2], delta[1])>>,
       <<half_sum(0 - size[1], delta[2]), half_sum(0 - size[2], 0 - delta[1])>>,
       <<half_sum(size[1], 0 - delta[2]), half_sum(0 - size[2], delta[1])>> >>

\* the layers list of a pad: "F" then "B", each if the padstack has the layer
pad_layers(layers_set) ==
    (IF BL_F_Cu \in layers_set THEN <<"F">> ELSE <<>>)
    \o (IF BL_B_Cu \in layers_set THEN <<"B">> ELSE <<>>)

\* parse_pad, the keys set for shape "custom": the outline the board delivers,
\* moved by -pad.position, or an empty list and a warning
custom_polygons(pad) ==
    IF pad.shape_polygon # None
    THEN LET poly == pad.shape_polygon
             moved == [isPolygon |-> FALSE,
                       outline |-> [j \in 1..Len(poly.outline) |->
                           LET n == poly.outline[j]
                           IN  IF n.kind = "point"
                               THEN [n EXCEPT !.point = <<n.point[1] - pad.position[1],
                                                          n.point[2] - pad.position[2]>>]
                               ELSE n]]
             t == parse_polygon(moved)
         IN  [ret |-> <<t.ret>>, log |-> t.log]
    ELSE [ret |-> <<>>,
          log |-> <<LogEntry("warn", "Custom pad shape could not be retrieved for pad")>>]

\* parse_pad, lines 300-306: the dict every pad of a known shape starts with
pad_base(pad, shape) ==
    [layers |-> pad_layers(pad.padstack.layers),
     pos |-> normalize_vec(pad.position),
     size |-> normalize_vec(pad.padstack.copper_layers[1].size),
     angle |-> normalize_angle(pad.padstack.angle),
     shape |-> shape]

\* parse_pad, lines 308-318: a custom pad gets its polygons
pad_custom(d, pad, shape) ==
    IF shape = "custom" THEN SetKey(d, "polygons", custom_polygons(pad).ret) ELSE d

\* parse_pad, lines 319-328: a trapezoid becomes a custom pad of four corners
pad_trapezoid(d, stack_layer, shape) ==
    IF shape = "trapezoid"
    THEN SetKey(SetKey(d, "shape", "custom"), "polygons",
                <<trapezoid_corners(stack_layer.size, stack_layer.trapezoid_delta)>>)
    ELSE d

\* parse_pad, lines 330-331: corner_rounding_ratio * min(size[0], size[1])
pad_radius(d, stack_layer, shape) ==
    IF shape \in {"roundrect", "chamfrect"}
    THEN SetKey(d, "radius",
                [ratio |-> stack_layer.corner_rounding_ratio,
                 of |-> normalize(IF stack_layer.size[1] <= stack_layer.size[2]
                                  THEN stack_layer.size[1] ELSE stack_layer.size[2])])
    ELSE d

\* parse_pad, lines 332-334
pad_chamfer(d, stack_layer, shape) ==
    IF shape = "chamfrect"
    THEN SetKey(SetKey(d, "chamfpos", parse_chamfered_corners(stack_layer.chamfered_corners)),
                "chamfratio", stack_layer.chamfer_ratio)
    ELSE d

\* parse_pad, lines 336-344: through hole with its drill, or smd
pad_type(d, pad) ==
    IF pad.pad_type \in {"PT_PTH", "PT_NPTH"}
    THEN SetKey(SetKey(SetKey(d, "type", "th"),
                       "drillshape",
                       IF pad.padstack.drill.shape = "DS_OBLONG" THEN "oblong" ELSE "circle"),
                "drillsize", normalize(pad.padstack.drill.diameter))
    ELSE SetKey(d, "type", "smd")

\* parse_pad, lines 346-349: the offset, and the net name if nets are included
pad_offset_net(d, pad, cfg) ==
    IF cfg.include_nets
    THEN SetKey(SetKey(d, "offset", normalize_vec(pad.padstack.copper_layers[1].offset)),
                "net", pad.net)
    ELSE SetKey(d, "offset", normalize_vec(pad.padstack.copper_layers[1].offset))

\* parse_pad, for a pad whose shape code has the tag shape
pad_dict(pad, cfg, shape) ==
    pad_offset_net(
        pad_type(
            pad_chamfer(
                pad_radius(
                    pad_trapezoid(
                        pad_custom(pad_base(pad, shape), pad, shape),
                        pad.padstack.copper_layers[1], shape),
                    pad.padstack.copper_layers[1], shape),
                pad.padstack.copper_layers[1], shape),
            pad),
        pad, cfg)

\* parse_pad
parse_pad(pad, cfg) ==
    IF pad_shape_tag(pad.padstack.copper_layers[1].shape) = ""
    THEN [ret |-> None, log |-> <<LogEntry("info", "Unsupported pad shape, skipping.")>>]
    ELSE [ret |-> pad_dict(pad, cfg, pad_shape_tag(pad.padstack.copper_layers[1].shape)),
          log |-> IF pad_shape_tag(pad.padstack.copper_layers[1].shape) = "custom"
                  THEN custom_polygons(pad).log ELSE <<>>]

\* -------------------------------------------------------------- footprints

\* A pad number is a Python str, held as the sequence of its code points.
\* Python orders str by code point, a proper prefix first.
RECURSIVE str_less(_, _)
str_less(a, b) ==
    IF b = <<>> THEN FALSE
    ELSE IF a = <<>> THEN TRUE
    ELSE IF Head(a) # Head(b) THEN Head(a) < Head(b)
    ELSE str_less(Tail(a), Tail(b))

\* the pad numbers of the source, as code points
Str_1 == <<49>>
Str_A == <<65>>
Str_A1 == <<65, 49>>
Str_P1 == <<80, 49>>
Str_PAD1 == <<80, 65, 68, 49>>

\* ['1', 'A', 'A1', 'P1', 'PAD1']
Pin1Names == {Str_1, Str_A, Str_A1, Str_P1, Str_PAD1}

\* sorted(pads, key=lambda el: el[0]): stable, ascending by pad number.  Each
\* element goes after every element already placed that is not greater.
RECURSIVE sorted_pads(_)
sorted_pads(pads) ==
    IF pads = <<>> THEN <<>>
    ELSE LET n == Len(pads)
             x == pads[n]
             r == sorted_pads(SubSeq(pads, 1, n - 1))
             k == Cardinality({i \in 1..Len(r) : ~str_less(x[1], r[i][1])})
         IN  SubSeq(r, 1, k) \o <<x>> \o SubSeq(r, k + 1, Len(r))

\* translate_pads that keeps what parse_pad returns for a pad of unknown shape
RECURSIVE translate_pads_unfiltered(_, _)
translate_pads_unfiltered(pads, cfg) ==
    IF pads = <<>> THEN [ret |-> <<>>, log |-> <<>>]
    ELSE [ret |-> << <<Head(pads).number, parse_pad(Head(pads), cfg).ret>> >>
                  \o translate_pads_unfiltered(Tail(pads), cfg).ret,
          log |-> parse_pad(Head(pads), cfg).log
                  \o translate_pads_unfiltered(Tail(pads), cfg).log]

\* the (number, pad_dict) pairs of the pads parse_pad translates, in input
\* order, with the log of all the parse_pad calls
RECURSIVE translate_pads(_, _)
translate_pads(pads, cfg) ==
    IF pads = <<>> THEN [ret |-> <<>>, log |-> <<>>]
    ELSE LET p == Head(pads)
             t == parse_pad(p, cfg)
             rest == translate_pads(Tail(pads), cfg)
         IN  [ret |-> IF t.ret # None THEN << <<p.number, t.ret>> >> \o rest.ret ELSE rest.ret,
              log |-> t.log \o rest.log]

\* pin1_pad_name without the list of first-pin names
pin1_pad_name_smallest(pads) == pads[1][1]

\* the pad number that gets the pin1 marker, for a non-empty sorted list
pin1_pad_name(pads) ==
    LET pin1_pads == SelectSeq(pads, LAMBDA p : p[1] \in Pin1Names)
    IN  IF pin1_pads # <<>> THEN pin1_pads[1][1] ELSE pads[1][1]

\* mark_pin1 that stops at the first pad named like the first pin
mark_pin1_first_only(pads) ==
    IF pads # <<>>
    THEN LET srt == sorted_pads(pads)
             name == pin1_pad_name(srt)
             first == CHOOSE i \in 1..Len(srt) :
                        srt[i][1] = name /\ \A j \in 1..(i - 1) : srt[j][1] # name
         IN  [i \in 1..Len(srt) |->
                IF i = first THEN SetKey(srt[i][2], "pin1", 1) ELSE srt[i][2]]
    ELSE <<>>

\* the pad dicts of a footprint as emitted: sorted, the pads named like the
\* first pin marked
mark_pin1(pads) ==
    IF pads # <<>>
    THEN LET srt == sorted_pads(pads)
             name == pin1_pad_name(srt)
         IN  [i \in 1..Len(srt) |->
                IF srt[i][1] = name THEN SetKey(srt[i][2], "pin1", 1) ELSE srt[i][2]]
    ELSE <<>>

\* the copper drawings of a footprint
RECURSIVE footprint_drawings(_)
footprint_drawings(shapes) ==
    IF shapes = <<>> THEN [ret |-> <<>>, log |-> <<>>]
    ELSE LET d == Head(shapes)
             rest == footprint_drawings(Tail(shapes))
         IN  IF d.layer \notin {BL_F_Cu, BL_B_Cu} THEN rest
             ELSE LET t == parse_shape(d)
                  IN  [ret |-> << [layer |-> IF d.layer = BL_F_Cu THEN "F" ELSE "B",
                                   drawing |-> t.ret] >> \o rest.ret,
                       log |-> t.log \o rest.log]

\* one iteration of the loop of parse_footprints, for a footprint whose
\* bounding box the board delivers
parse_footprint(f, cfg) ==
    LET footprint_rect == [pos |-> <<f.item_bounding_box.pos[1] - f.position[1],
                                     f.item_bounding_box.pos[2] - f.position[2]>>,
                           size |-> f.item_bounding_box.size]
        dr == footprint_drawings(f.definition.shapes)
        pads == translate_pads(f.definition.pads, cfg)
    IN  [ret |-> [ref |-> f.reference,
                  bbox |-> [pos |-> normalize_vec(f.position),
                            relpos |-> normalize_vec(footprint_rect.pos),
                            size |-> normalize_vec(footprint_rect.size),
                            angle |-> normalize_angle(f.orientation)],
                  pads |-> mark_pin1(pads.ret),
                  drawings |-> dr.ret,
                  layer |-> IF f.layer = BL_F_Cu THEN "F" ELSE "B"],
         log |-> dr.log \o pads.log]

\* parse_footprints: the list of footprint dicts, or raised = TRUE when
\* assert(footprint_rect) fails: the loop stops at the first footprint whose
\* bounding box is None
RECURSIVE parse_footprints(_, _)
parse_footprints(fps, cfg) ==
    IF fps = <<>> THEN [ret |-> <<>>, log |-> <<>>, raised |-> FALSE]
    ELSE IF Head(fps).item_bounding_box = None
    THEN [ret |-> <<>>, log |-> <<>>, raised |-> TRUE]
    ELSE LET t == parse_footprint(Head(fps), cfg)
             rest == parse_footprints(Tail(fps), cfg)
         IN  [ret |-> <<t.ret>> \o rest.ret, log |-> t.log \o rest.log, raised |-> rest.raised]

\* --------------------------------------------------------- tracks and zones

\* the dict of a via: the net name is set whatever the configuration
via_dict(track) ==
    LET d == [start |-> normalize_vec(track.position),
              end |-> normalize_vec(track.position),
              width |-> normalize(track.padstack.copper_layers[1].size[1]),
              net |-> track.net]
    IN  IF track.padstack.is_masked
        THEN SetKey(d, "drillsize", normalize(track.padstack.drill.diameter))
        ELSE d

\* the dict of an ArcTrack or a Track
track_dict(track, cfg) ==
    LET d == IF track.kind = "ArcTrack"
             THEN [center |-> normalize_vec(track.center),
                   startangle |-> track.start_angle,
                   endangle |-> track.end_angle,
                   radius |-> normalize(track.radius),
                   width |-> normalize(track.width)]
             ELSE [start |-> normalize_vec(track.start),
                   end |-> normalize_vec(track.end),
                   width |-> normalize(track.width)]
    IN  IF cfg.include_nets THEN SetKey(d, "net", track.net) ELSE d

\* the layers of the result a via is appended to: a break after the first
track_layers_first_only(track) ==
    IF track.kind = "Via"
    THEN IF BL_F_Cu \in track.padstack.layers THEN <<BL_F_Cu>>
         ELSE IF BL_B_Cu \in track.padstack.layers THEN <<BL_B_Cu>> ELSE <<>>
    ELSE IF track.layer \in {BL_F_Cu, BL_B_Cu} THEN <<track.layer>> ELSE <<>>

\* the layers of the result a track's dict is appended to: for a via each of
\* front and back copper its padstack has, for a track its own layer if that is
\* front or back copper
track_layers(track) ==
    IF track.kind = "Via"
    THEN SelectSeq(<<BL_F_Cu, BL_B_Cu>>, LAMBDA layer : layer \in track.padstack.layers)
    ELSE IF track.layer \in {BL_F_Cu, BL_B_Cu} THEN <<track.layer>> ELSE <<>>

\* the loop of parse_tracks over the tracks left, result being the two lists
\* so far
RECURSIVE bucket_tracks(_, _, _)
bucket_tracks(tracks, cfg, result) ==
    IF tracks = <<>> THEN result
    ELSE LET track == Head(tracks)
             d == IF track.kind = "Via" THEN via_dict(track) ELSE track_dict(track, cfg)
             on == {track_layers(track)[i] : i \in 1..Len(track_layers(track))}
         IN  bucket_tracks(Tail(tracks), cfg,
                [F |-> IF BL_F_Cu \in on THEN Append(result.F, d) ELSE result.F,
                 B |-> IF BL_B_Cu \in on THEN Append(result.B, d) ELSE result.B])

\* parse_tracks
parse_tracks(tracks, cfg) ==
    [ret |-> bucket_tracks(tracks, cfg, [F |-> <<>>, B |-> <<>>]), log |-> <<>>]

\* the dict of a zone on a layer its filled_polygons has
zone_dict(zone, layer, cfg) ==
    LET polys == zone.filled_polygons[layer]
        parsed == [i \in 1..Len(polys) |-> parse_polygon(polys[i])]
        d == [polygons |-> [i \in 1..Len(parsed) |-> parsed[i].ret],
              width |-> normalize(zone.min_thickness)]
    IN  [ret |-> IF cfg.include_nets THEN SetKey(d, "net", zone.net) ELSE d,
         log |-> Flatten([i \in 1..Len(parsed) |-> parsed[i].log])]

\* the inner loop of parse_zones: the copper layers of one zone, in the order
\* of zone.layers
RECURSIVE bucket_zone_layers(_, _, _, _)
bucket_zone_layers(zone, layers, cfg, acc) ==
    IF layers = <<>> THEN acc
    ELSE LET layer == Head(layers)
         IN  IF layer \notin DOMAIN zone.filled_polygons
             THEN bucket_zone_layers(zone, Tail(layers), cfg, acc)
             ELSE LET z == zone_dict(zone, layer, cfg)
                  IN  bucket_zone_layers(zone, Tail(layers), cfg,
                        [F |-> IF layer = BL_F_Cu THEN Append(acc.F, z.ret) ELSE acc.F,
                         B |-> IF layer = BL_B_Cu THEN Append(acc.B, z.ret) ELSE acc.B,
                         log |-> acc.log \o z.log])

\* zone_skipped that lets rule areas through
zone_skipped_unfilled_only(zone) == ~zone.filled

\* the zones parse_zones passes over: not filled, or a rule area
zone_skipped(zone) == ~zone.filled \/ zone.is_rule_area

\* the outer loop of parse_zones
RECURSIVE bucket_zones(_, _, _)
bucket_zones(zones, cfg, acc) ==
    IF zones = <<>> THEN acc
    ELSE LET zone == Head(zones)
         IN  IF zone_skipped(zone)
             THEN bucket_zones(Tail(zones), cfg, acc)
             ELSE bucket_zones(Tail(zones), cfg,
                    bucket_zone_layers(zone,
                        SelectSeq(zone.layers, LAMBDA l : l \in {BL_F_Cu, BL_B_Cu}),
                        cfg, acc))

\* parse_zones
parse_zones(zones, cfg) ==
    LET r == bucket_zones(zones, cfg, [F |-> <<>>, B |-> <<>>, log |-> <<>>])
    IN  [ret |-> [F |-> r.F, B |-> r.B], log |-> r.log]

\* ------------------------------------------------------------------- parse

\* sorted(names): ascending by code point
RECURSIVE sorted_names(_)
sorted_names(names) ==
    IF names = <<>> THEN <<>>
    ELSE LET n == Len(names)
             x == names[n]
             r == sorted_names(SubSeq(names, 1, n - 1))
             k == Cardinality({i \in 1..Len(r) : ~str_less(x, r[i])})
         IN  SubSeq(r, 1, k) \o <<x>> \o SubSeq(r, k + 1, Len(r))

\* parse, lines 493-498: board shapes, then board text, then every footprint's
\* texts and fields
collect_drawings(b, fps) ==
    b.shapes \o b.text \o Flatten([i \in 1..Len(fps) |-> fps[i].texts_and_fields])

\* [self.parse_shape(s) for s in drawings if s.layer == layer]
drawings_on_layer(dr, layer) ==
    LET sel == SelectSeq(dr, LAMBDA d : d.layer = layer)
        parsed == [i \in 1..Len(sel) |-> parse_shape(sel[i])]
    IN  [ret |-> [i \in 1..Len(parsed) |-> parsed[i].ret],
         log |-> Flatten([i \in 1..Len(parsed) |-> parsed[i].log])]

\* the layers of the four drawing lists of the document
silkscreen_F_layer == BL_F_SilkS
silkscreen_B_layer == BL_B_SilkS
fabrication_F_layer == BL_F_Fab
fabrication_B_layer == BL_B_Fab

\* parse, lines 506-511: the bbox dict
edges_bbox(bb) ==
    [minx |-> normalize(bb.pos[1]),
     miny |-> normalize(bb.pos[2]),
     maxx |-> normalize(bb.pos[1] + bb.size[1]),
     maxy |-> normalize(bb.pos[2] + bb.size[2])]

\* parse step, lines 490-498
CollectDrawings ==
    /\ pc = "start"
    /\ drawings' = collect_drawings(board, footprints)
    /\ pc' = "parse_edges"
    /\ UNCHANGED <<board, footprints, config, call, edges, bbox, pcbdata, ret, log>>

\* parse step, line 500: parse_edges works on the list of the caller
ParseEdges ==
    /\ pc = "parse_edges"
    /\ LET r == parse_edges(drawings, footprints)
       IN  /\ edges' = r.edges
           /\ bbox' = r.bbox
           /\ drawings' = r.drawings
           /\ log' = log \o r.log
    /\ pc' = "check_bbox"
    /\ UNCHANGED <<board, footprints, config, call, pcbdata, ret>>

\* parse step, lines 501-505: no outline, the failure signal
FailNoOutline ==
    /\ pc = "check_bbox"
    /\ bbox = None
    /\ log' = Append(log, LogEntry("error", "Please draw pcb outline on the edges layer"))
    /\ ret' = [pcbdata |-> None, components |-> None]
    /\ pc' = "done"
    /\ UNCHANGED <<board, footprints, config, call, drawings, edges, bbox, pcbdata>>

\* parse step, lines 506-525: the document up to its drawing lists
BuildDocument ==
    /\ pc = "check_bbox"
    /\ bbox # None
    /\ LET sf == drawings_on_layer(drawings, silkscreen_F_layer)
           sb == drawings_on_layer(drawings, silkscreen_B_layer)
           ff == drawings_on_layer(drawings, fabrication_F_layer)
           fb == drawings_on_layer(drawings, fabrication_B_layer)
       IN  /\ pcbdata' = [edges_bbox |-> edges_bbox(bbox),
                          edges |-> edges,
                          drawings |-> [silkscreen |-> [F |-> sf.ret, B |-> sb.ret],
                                        fabrication |-> [F |-> ff.ret, B |-> fb.ret]]]
           /\ log' = log \o sf.log \o sb.log \o ff.log \o fb.log
    /\ pc' = "parse_footprints"
    /\ UNCHANGED <<board, footprints, config, call, drawings, edges, bbox, ret>>

\* parse step, line 526: parse_footprints returns
ParseFootprints ==
    /\ pc = "parse_footprints"
    /\ LET r == parse_footprints(footprints, config)
       IN  /\ ~r.raised
           /\ pcbdata' = SetKey(pcbdata, "footprints", r.ret)
           /\ log' = log \o r.log
    /\ pc' = "finish"
    /\ UNCHANGED <<board, footprints, config, call, drawings, edges, bbox, ret>>

\* parse step, line 526: assert(footprint_rect) fails in parse_footprints and
\* the AssertionError leaves parse
ParseFootprintsRaises ==
    /\ pc = "parse_footprints"
    /\ LET r == parse_footprints(footprints, config)
       IN  /\ r.raised
           /\ log' = log \o r.log
    /\ pc' = "raised"
    /\ UNCHANGED <<board, footprints, config, call, drawings, edges, bbox, pcbdata, ret>>

\* parse step, lines 527-548: metadata, the optional sections, the components
Finish ==
    /\ pc = "finish"
    /\ LET d0 == SetKey(SetKey(SetKey(pcbdata, "metadata", board.title_block),
                               "bom", <<>>), "font_data", "font_data")
           tr == parse_tracks(board.tracks \o board.vias, config)
           zn == parse_zones(board.zones, config)
           d1 == IF config.include_tracks
                 THEN SetKey(SetKey(d0, "tracks", tr.ret), "zones", zn.ret)
                 ELSE d0
           d2 == IF config.include_nets
                 THEN SetKey(d1, "nets", sorted_names(board.nets))
                 ELSE d1
           components == [i \in 1..Len(footprints) |->
                            footprint_to_component(footprints[i], <<>>)]
       IN  /\ pcbdata' = d2
           /\ ret' = [pcbdata |-> d2, components |-> [list |-> components]]
           /\ log' = IF config.include_tracks THEN log \o tr.log \o zn.log ELSE log
    /\ pc' = "done"
    /\ UNCHANGED <<board, footprints, config, call, drawings, edges, bbox>>

\* ------------------------------------------------------------------ inputs

\* the longest list of items on a board
MaxItems == 2

\* a PolygonWithHoles of the given outline nodes
PolygonWithHoles(nodes) == [isPolygon |-> FALSE, outline |-> nodes]

\* an outline node: a point or an arc
PointNode(x, y) == [kind |-> "point", point |-> <<x, y>>]
ArcNode == [kind |-> "arc"]

\* a BoardText at <<n, n>> whose rendering is the subshapes given
BoardText(layer, n, shapes) ==
    [kind |-> "BoardText", layer |-> layer, position |-> <<n, n>>,
     stroke_width |-> n, shapes |-> shapes,
     bounding_box |-> [pos |-> <<n, n>>, size |-> <<n, 1>>]]

\* a stroke of rendered text
TextSegment(n) == [kind |-> "Segment", start |-> <<0, 0>>, end |-> <<n, 0>>]

\* a drawable of class kind on layer, its geometry told apart by n
Drawable(kind, layer, n) ==
    LET box == [pos |-> <<n, 2 * n>>, size |-> <<n, 1>>]
    IN  IF kind = "BoardSegment" THEN
            [kind |-> kind, layer |-> layer, bounding_box |-> box,
             start |-> <<n, 2 * n>>, end |-> <<2 * n, 2 * n + 1>>, stroke_width |-> n]
        ELSE IF kind = "BoardCircle" THEN
            [kind |-> kind, layer |-> layer, bounding_box |-> box,
             center |-> <<n, n>>, radius |-> n, stroke_width |-> n, filled |-> FALSE]
        ELSE IF kind = "BoardArc" THEN
            [kind |-> kind, layer |-> layer, bounding_box |-> box,
             center |-> <<n, n>>, radius |-> n, stroke_width |-> n,
             start_angle |-> [rad |-> 0], end_angle |-> [rad |-> n]]
        ELSE IF kind = "BoardPolygon" THEN
            [kind |-> kind, layer |-> layer, bounding_box |-> box,
             polygons |-> <<PolygonWithHoles(<<PointNode(n, n), PointNode(2 * n, n),
                                               PointNode(n, 2 * n)>>)>>,
             filled |-> TRUE, stroke_width |-> n]
        ELSE IF kind = "BoardBezier" THEN
            [kind |-> kind, layer |-> layer, bounding_box |-> box,
             start |-> <<n, n>>, control1 |-> <<n, 0>>, control2 |-> <<0, n>>,
             end |-> <<2 * n, n>>, stroke_width |-> n]
        ELSE IF kind = "BoardRectangle" THEN
            [kind |-> kind, layer |-> layer, bounding_box |-> box,
             top_left |-> <<n, 2 * n>>, bottom_right |-> <<2 * n, 2 * n + 1>>,
             stroke_width |-> n, filled |-> FALSE]
        ELSE IF kind = "BoardText" THEN
            BoardText(layer, n, <<TextSegment(n)>>)
        ELSE IF kind = "BoardTextBox" THEN
            [kind |-> kind, layer |-> layer, bounding_box |-> box,
             top_left |-> <<n, n>>, stroke_width |-> n, shapes |-> <<TextSegment(n)>>]
        ELSE IF kind = "Field" THEN
            [kind |-> kind, layer |-> layer, bounding_box |-> box,
             text |-> BoardText(layer, n, <<TextSegment(n)>>)]
        ELSE
            [kind |-> kind, layer |-> layer, bounding_box |-> box]

\* a pad numbered number of padstack shape code shape, told apart by n
Pad(number, shape, n) ==
    [number |-> number, position |-> <<n, n>>, pad_type |-> "PT_SMD", net |-> "GND",
     shape_polygon |-> None,
     padstack |-> [layers |-> {BL_F_Cu},
                   angle |-> [degrees |-> 0],
                   copper_layers |-> <<[shape |-> shape, size |-> <<2 * n, n>>,
                                        trapezoid_delta |-> <<0, 0>>, offset |-> <<0, 0>>,
                                        corner_rounding_ratio |-> 25,
                                        chamfer_ratio |-> 20,
                                        chamfered_corners |-> [top_left |-> TRUE, top_right |-> FALSE,
                                                               bottom_left |-> FALSE,
                                                               bottom_right |-> FALSE]]>>,
                   drill |-> [shape |-> "DS_CIRCLE", diameter |-> n]]]

\* a footprint instance with the texts, definition shapes and pads given;
\* item_bounding_box is what board.get_item_bounding_box delivers for it
Footprint(texts, shapes, pads, item_bounding_box) ==
    [reference |-> "R1", value |-> "10k", layer |-> BL_F_Cu,
     position |-> <<5, 5>>, orientation |-> [degrees |-> 90],
     exclude_from_bill_of_materials |-> FALSE,
     item_bounding_box |-> item_bounding_box,
     texts_and_fields |-> texts,
     definition |-> [id |-> "R_0603", shapes |-> shapes, pads |-> pads]]

\* a straight track, an arc track and a via
Track(layer, n) ==
    [kind |-> "Track", layer |-> layer, start |-> <<n, 0>>, end |-> <<n, n>>,
     width |-> n, net |-> "GND"]
ArcTrack(layer, n) ==
    [kind |-> "ArcTrack", layer |-> layer, center |-> <<n, n>>, radius |-> n,
     start_angle |-> 0, end_angle |-> n, width |-> n, net |-> "GND"]
Via(layers, masked, n) ==
    [kind |-> "Via", position |-> <<n, n>>, net |-> "GND",
     padstack |-> [layers |-> layers, is_masked |-> masked,
                   copper_layers |-> <<[size |-> <<n, n>>]>>,
                   drill |-> [diameter |-> n]]]

\* a zone on the layers given whose fill covers the layers of filled_on
Zone(filled, rule_area, layers, filled_on, n) ==
    [filled |-> filled, is_rule_area |-> rule_area, layers |-> layers,
     min_thickness |-> n, net |-> "GND",
     filled_polygons |-> [l \in filled_on |->
                            <<PolygonWithHoles(<<PointNode(n, 0), PointNode(0, n), PointNode(n, n)>>)>>]]

\* where an item of a board sits, its class and its layer
ItemLayers == {BL_Edge_Cuts, BL_F_SilkS, BL_B_SilkS, BL_F_Fab, BL_B_Fab, BL_F_Cu}
ItemPlaces ==
    ({"shapes"} \X {"BoardSegment", "Dimension"} \X ItemLayers)
    \cup ({"text"} \X {"BoardText"} \X ItemLayers)
    \cup ({"fp_text"} \X {"Field"} \X ItemLayers)
    \cup ({"fp_shape"} \X {"BoardRectangle", "Dimension"} \X ItemLayers)

ItemLists == UNION {[1..n -> ItemPlaces] : n \in 0..MaxItems}

\* the items of a list that sit at src, as drawables, in the order of the list
RECURSIVE ItemsAt(_, _, _)
ItemsAt(items, src, n) ==
    IF items = <<>> THEN <<>>
    ELSE (IF Head(items)[1] = src
          THEN <<Drawable(Head(items)[2], Head(items)[3], n)>> ELSE <<>>)
         \o ItemsAt(Tail(items), src, n + 1)

\* a board outline: one rectangle on Edge.Cuts
Outline == Drawable("BoardRectangle", BL_Edge_Cuts, 9)

\* the board of a list of items, after the outline if one is drawn
BoardOf(items, outline) ==
    [shapes |-> (IF outline THEN <<Outline>> ELSE <<>>) \o ItemsAt(items, "shapes", 1),
     text |-> ItemsAt(items, "text", 1),
     tracks |-> <<Track(BL_F_Cu, 1), ArcTrack(BL_B_Cu, 2)>>,
     vias |-> <<Via({BL_F_Cu, BL_B_Cu}, FALSE, 3)>>,
     zones |-> <<Zone(TRUE, FALSE, <<BL_F_Cu>>, {BL_F_Cu}, 4)>>,
     nets |-> <<Str_P1, Str_A>>,
     title_block |-> [title |-> "t", revision |-> "r", company |-> "c", date |-> "d"]]

\* the footprints of a list of items: none, or one with two pads
FootprintsOf(items, hasFootprint, item_bounding_box) ==
    IF hasFootprint
    THEN <<Footprint(ItemsAt(items, "fp_text", 1), ItemsAt(items, "fp_shape", 1),
                     <<Pad(<<50>>, "PSS_RECTANGLE", 1), Pad(Str_1, "PSS_OVAL", 2)>>,
                     item_bounding_box)>>
    ELSE <<>>

Configs == {[include_nets |-> n, include_tracks |-> t] : n, t \in BOOLEAN}

\* a parser constructed on a board, parse about to run
Init ==
    /\ \E items \in ItemLists, outline \in BOOLEAN, hasFootprint \in BOOLEAN,
          bb \in {None, [pos |-> <<4, 4>>, size |-> <<2, 2>>]} :
          /\ (\E i \in 1..Len(items) : items[i][1] \in {"fp_text", "fp_shape"}) => hasFootprint
          /\ ~hasFootprint => bb = None
          /\ board = BoardOf(items, outline)
          /\ footprints = FootprintsOf(items, hasFootprint, bb)
    /\ config \in {c \in Configs : c.include_nets = c.include_tracks}
    /\ pc = "start"
    /\ call = [method |-> "parse"]
    /\ drawings = <<>>
    /\ edges = <<>>
    /\ bbox = None
    /\ pcbdata = None
    /\ ret = NotReturned
    /\ log = <<>>

Next ==
    \/ CollectDrawings
    \/ ParseEdges
    \/ FailNoOutline
    \/ BuildDocument
    \/ ParseFootprints
    \/ ParseFootprintsRaises
    \/ Finish

Spec == Init /\ [][Next]_vars

\* ------------------------------------------------- parse_footprints alone

\* the longest list of pads of a footprint
MaxPads == 3

Str_10 == <<49, 48>>
Str_B1 == <<66, 49>>

\* pad numbers: the five first-pin names and two others
PadNumbers == Pin1Names \cup {Str_10, Str_B1}

PadPlaces == PadNumbers \X {"PSS_RECTANGLE", "PSS_UNKNOWN"}
PadLists == UNION {[1..n -> PadPlaces] : n \in 0..MaxPads}

\* the pads of a list, told apart by their place in it
PadsOf(places) == [i \in 1..Len(places) |-> Pad(places[i][1], places[i][2], i)]

\* a parser constructed on a board of one footprint, parse_footprints about to
\* run
InitFootprints ==
    /\ \E places \in PadLists, bb \in {None, [pos |-> <<4, 4>>, size |-> <<2, 2>>]} :
          /\ bb = None => places = <<>>
          /\ footprints = <<Footprint(<<>>, <<>>, PadsOf(places), bb)>>
    /\ board = BoardOf(<<>>, FALSE)
    /\ config = [include_nets |-> FALSE, include_tracks |-> FALSE]
    /\ pc = "call"
    /\ call = [method |-> "parse_footprints"]
    /\ drawings = <<>>
    /\ edges = <<>>
    /\ bbox = None
    /\ pcbdata = None
    /\ ret = NotReturned
    /\ log = <<>>

\* parse_footprints() returns
CallParseFootprints ==
    /\ pc = "call"
    /\ call.method = "parse_footprints"
    /\ LET r == parse_footprints(footprints, config)
       IN  /\ ~r.raised
           /\ ret' = [list |-> r.ret]
           /\ log' = log \o r.log
    /\ pc' = "returned"
    /\ UNCHANGED <<board, footprints, config, call, drawings, edges, bbox, pcbdata>>

\* parse_footprints() raises AssertionError
CallParseFootprintsRaises ==
    /\ pc = "call"
    /\ call.method = "parse_footprints"
    /\ LET r == parse_footprints(footprints, config)
       IN  /\ r.raised
           /\ log' = log \o r.log
    /\ pc' = "raised"
    /\ UNCHANGED <<board, footprints, config, call, drawings, edges, bbox, pcbdata, ret>>

NextFootprints == CallParseFootprints \/ CallParseFootprintsRaises

SpecFootprints == InitFootprints /\ [][NextFootprints]_vars

\* ------------------------------------------------------- claims C2 and C3

\* the shape codes of the shape table of parse_pad
RecognisedShapes == {"PSS_CIRCLE", "PSS_OVAL", "PSS_RECTANGLE", "PSS_TRAPEZOID",
                     "PSS_ROUNDRECT", "PSS_CUSTOM", "PSS_CHAMFEREDRECT"}

\* the places, in the pad list of footprint f, of the pads of a recognised shape
RecognisedPads(f) ==
    {i \in 1..Len(f.definition.pads) :
        f.definition.pads[i].padstack.copper_layers[1].shape \in RecognisedShapes}

\* the place in f's pad list of the pad an emitted pad dict comes from (the
\* pads of an input list differ in position)
InputPlace(f, pd) ==
    CHOOSE i \in 1..Len(f.definition.pads) :
        pd.pos = <<Scaled(f.definition.pads[i].position[1], -6),
                   Scaled(f.definition.pads[i].position[2], -6)>>

\* the least string of a non-empty set
MinStr(S) == CHOOSE x \in S : \A y \in S : ~str_less(y, x)

\* the first-pin number of a non-empty set of pad numbers, as the rule states it
ExpectedPin1(S) == IF S \cap Pin1Names # {} THEN MinStr(S \cap Pin1Names) ELSE MinStr(S)

\* parse_footprints has returned its list
FootprintsReturned == pc = "returned" /\ call.method = "parse_footprints"

\* the places in an emitted pad list of the pads that carry pin1
Pin1Places(pads) == {i \in 1..Len(pads) : HasKey(pads[i], "pin1")}

\* C2 as stated: a footprint with emitted pads has exactly one pad marked pin1,
\* a footprint without has none
C2_ExactlyOnePin1 ==
    FootprintsReturned =>
        \A k \in 1..Len(ret.list) :
            Cardinality(Pin1Places(ret.list[k].pads))
                = IF ret.list[k].pads # <<>> THEN 1 ELSE 0

\* C2, amended: the emitted pads that carry pin1 are exactly those whose pad
\* number is the first-pin number of the footprint: at least one when pads are
\* emitted, exactly one when that number is the number of one emitted pad only,
\* none when no pad is emitted
C2_Pin1MarksEveryPadOfTheNumber ==
    FootprintsReturned =>
        \A k \in 1..Len(ret.list) :
            LET f == footprints[k]
                pads == ret.list[k].pads
                numbers == {f.definition.pads[i].number : i \in RecognisedPads(f)}
                named == {i \in RecognisedPads(f) :
                            f.definition.pads[i].number = ExpectedPin1(numbers)}
            IN  /\ Len(pads) = Cardinality(RecognisedPads(f))
                /\ pads = <<>> => Pin1Places(pads) = {}
                /\ pads # <<>> =>
                     /\ Cardinality(Pin1Places(pads)) >= 1
                     /\ Cardinality(Pin1Places(pads)) = Cardinality(named)
                     /\ Cardinality(named) = 1 => Cardinality(Pin1Places(pads)) = 1

\* C2, witness: two emitted pads share the first-pin number and both carry pin1
C2_Witness ==
    /\ FootprintsReturned
    /\ \E k \in 1..Len(ret.list) :
          /\ Cardinality(Pin1Places(ret.list[k].pads)) = 2
          /\ Len(ret.list[k].pads) = 3

\* C3: the pads marked pin1 are pads of one number, which is the least number
\* of {1, A, A1, P1, PAD1} among the numbers of the emitted pads when there is
\* one, else the least number of the emitted pads; the numbers of the pads
\* dropped for their shape play no part
C3_Pin1NumberIsLeastPreferredElseLeast ==
    FootprintsReturned =>
        \A k \in 1..Len(ret.list) :
            LET f == footprints[k]
                pads == ret.list[k].pads
                numbers == {f.definition.pads[i].number : i \in RecognisedPads(f)}
                chosen == {f.definition.pads[InputPlace(f, pads[i])].number :
                             i \in Pin1Places(pads)}
            IN  pads # <<>> => chosen = {ExpectedPin1(numbers)}

\* C3, witness: a pad numbered "1" is dropped for its shape, no emitted pad
\* has a first-pin name, and the pad marked is numbered "10", before "B1"
C3_Witness ==
    /\ FootprintsReturned
    /\ \E k \in 1..Len(ret.list) :
          LET f == footprints[k]
              pads == ret.list[k].pads
          IN  /\ \E i \in 1..Len(f.definition.pads) :
                    /\ i \notin RecognisedPads(f)
                    /\ f.definition.pads[i].number = Str_1
              /\ Len(pads) = 2
              /\ \E i \in Pin1Places(pads) :
                    f.definition.pads[InputPlace(f, pads[i])].number = Str_10
              /\ \E i \in 1..Len(pads) :
                    /\ i \notin Pin1Places(pads)
                    /\ f.definition.pads[InputPlace(f, pads[i])].number = Str_B1

\* ------------------------------------------------ claims C1, C4, C5 and C8

\* every footprint's texts and fields, and every footprint's definition shapes
FootprintTexts == Flatten([i \in 1..Len(footprints) |-> footprints[i].texts_and_fields])
DefinitionShapes == Flatten([i \in 1..Len(footprints) |-> footprints[i].definition.shapes])

\* the drawables the board holds: board shapes, board text, footprint texts
\* and fields, footprint definition shapes
BoardDrawables == board.shapes \o board.text \o FootprintTexts \o DefinitionShapes

\* some drawable of the board is on Edge.Cuts
HasOutline == \E i \in 1..Len(BoardDrawables) : BoardDrawables[i].layer = BL_Edge_Cuts

\* parse is over: it returned, or an exception left it
ParseReturned == call.method = "parse" /\ pc = "done"
ParseRaised == call.method = "parse" /\ pc = "raised"

\* parse returned (None, None)
ReturnedFailure == ParseReturned /\ ret.pcbdata = None /\ ret.components = None

\* parse returned a document
ReturnedDocument == ParseReturned /\ ret.pcbdata # None

\* C1 as stated: parse ends with (None, None) exactly when the board has no
\* Edge.Cuts drawable, and with a document that has an edges_bbox otherwise
C1_FailureIffNoOutline ==
    (ParseReturned \/ ParseRaised) =>
        IF HasOutline
        THEN ReturnedDocument /\ ret.pcbdata.edges_bbox # None
        ELSE ReturnedFailure

\* the part of C1 the code keeps: whenever parse returns, it returns (None,
\* None) exactly when the board has no Edge.Cuts drawable
C1_ReturnsFailureIffNoOutline ==
    ParseReturned =>
        IF HasOutline
        THEN ReturnedDocument /\ ret.pcbdata.edges_bbox # None
        ELSE ReturnedFailure

\* the drawing lists of a document
DrawingLists(doc) ==
    <<doc.edges, doc.drawings.silkscreen.F, doc.drawings.silkscreen.B,
      doc.drawings.fabrication.F, doc.drawings.fabrication.B>>

\* C4 as stated: no drawing list of the document returned holds a None, nor
\* does the drawing field of a footprint's copper drawing
C4_NoNullDrawing ==
    ReturnedDocument =>
        /\ \A l \in 1..5 : \A i \in 1..Len(DrawingLists(ret.pcbdata)[l]) :
              DrawingLists(ret.pcbdata)[l][i] # None
        /\ \A k \in 1..Len(ret.pcbdata.footprints) :
              \A i \in 1..Len(ret.pcbdata.footprints[k].drawings) :
                 ret.pcbdata.footprints[k].drawings[i].drawing # None

\* C5 as stated: a parse of a board with an outline is never left by an
\* exception, it returns a document
C5_OnlyMissingOutlineAborts ==
    HasOutline => /\ ~ParseRaised
                  /\ ParseReturned => ReturnedDocument

\* the parse_shape results of the drawables of a list that are on a layer
TranslationsOn(ds, layer) ==
    LET sel == SelectSeq(ds, LAMBDA d : d.layer = layer)
    IN  [i \in 1..Len(sel) |-> parse_shape(sel[i]).ret]

\* C8 as stated: each of the four lists is made of the board shapes, the board
\* text and the footprint texts and fields on its layer, in that order, and of
\* nothing else
C8_ListsHoldNoDefinitionShape ==
    ReturnedDocument =>
        LET src == board.shapes \o board.text \o FootprintTexts
            dr == ret.pcbdata.drawings
        IN  /\ dr.silkscreen.F = TranslationsOn(src, BL_F_SilkS)
            /\ dr.silkscreen.B = TranslationsOn(src, BL_B_SilkS)
            /\ dr.fabrication.F = TranslationsOn(src, BL_F_Fab)
            /\ dr.fabrication.B = TranslationsOn(src, BL_B_Fab)

\* C8, amended: each of the four lists holds the parse_shape results of the
\* board shapes, the board text, the footprint texts and fields and then the
\* footprint definition shapes that are on its layer, in that order, and
\* nothing else
C8_ListsFilterAllDrawablesByLayer ==
    ReturnedDocument =>
        LET dr == ret.pcbdata.drawings
        IN  /\ dr.silkscreen.F = TranslationsOn(BoardDrawables, BL_F_SilkS)
            /\ dr.silkscreen.B = TranslationsOn(BoardDrawables, BL_B_SilkS)
            /\ dr.fabrication.F = TranslationsOn(BoardDrawables, BL_F_Fab)
            /\ dr.fabrication.B = TranslationsOn(BoardDrawables, BL_B_Fab)

\* C8, witness: a list of the document holds a board shape or text and, after
\* it, a footprint definition shape, while drawables of other layers are on
\* the board
C8_Witness ==
    /\ ReturnedDocument
    /\ \E layer \in {BL_F_SilkS, BL_B_SilkS, BL_F_Fab, BL_B_Fab} :
          /\ \E i \in 1..Len(DefinitionShapes) : DefinitionShapes[i].layer = layer
          /\ \E i \in 1..Len(board.shapes \o board.text) :
                (board.shapes \o board.text)[i].layer = layer
          /\ Len(TranslationsOn(BoardDrawables, layer)) = 2
    /\ Len(ret.pcbdata.drawings.silkscreen.F) + Len(ret.pcbdata.drawings.silkscreen.B)
       + Len(ret.pcbdata.drawings.fabrication.F) + Len(ret.pcbdata.drawings.fabrication.B) = 2

\* ------------------------------- parse_shape, parse_pad, parse_tracks, parse_zones alone

\* the longest outline, list of polygons and list of text subshapes
MaxNodes == 2
\* the longest list of tracks and vias
MaxTracks == 3
\* the longest list of zones
MaxZones == 2

NodeLists == UNION {[1..n -> {PointNode(1, 2), ArcNode}] : n \in 0..MaxNodes}

\* what get_text_as_shapes delivers: strokes, filled polygons, other shapes
TextSubshapes ==
    {TextSegment(3), [kind |-> "Arc"]}
    \cup {[kind |-> "Polygon", isPolygon |-> TRUE, polygons |-> <<PolygonWithHoles(nodes)>>] :
            nodes \in {<<PointNode(1, 2)>>, <<ArcNode>>}}
TextSubshapeLists == UNION {[1..n -> TextSubshapes] : n \in 0..MaxNodes}

\* classes parse_shape has no branch for
OtherClasses == {"Dimension", "Group"}

\* the drawables parse_shape is called on
ShapeInputs ==
    {Drawable(kind, BL_F_SilkS, 1) : kind \in {"BoardSegment", "BoardBezier"} \cup OtherClasses}
    \cup {[Drawable(kind, BL_F_SilkS, 1) EXCEPT !.filled = f] :
            kind \in {"BoardCircle", "BoardRectangle"}, f \in BOOLEAN}
    \cup {[Drawable("BoardArc", BL_F_SilkS, 1) EXCEPT !.start_angle = a, !.end_angle = b] :
            a, b \in {None, [rad |-> 1]}}
    \cup {[Drawable("BoardPolygon", BL_F_SilkS, 1) EXCEPT !.filled = f, !.polygons = ps] :
            f \in BOOLEAN,
            ps \in UNION {[1..n -> {PolygonWithHoles(nodes) : nodes \in NodeLists}] : n \in 0..2}}
    \cup {[Drawable(kind, BL_F_SilkS, 1) EXCEPT !.shapes = sh] :
            kind \in TextClasses, sh \in TextSubshapeLists}
    \cup {[Drawable("Field", BL_F_SilkS, 1) EXCEPT !.text.shapes = sh] : sh \in TextSubshapeLists}

\* the sizes and trapezoid deltas, in nm, of the pads parse_pad is called on
PadGeometries ==
    {<<2000000, 1000000>>} \X {<<0, 0>>, <<200000, 0>>, <<0, 0 - 400000>>, <<200000, 400000>>}

\* the pads parse_pad is called on
PadInputs ==
    {[Pad(Str_1, shape, 1) EXCEPT !.pad_type = type, !.padstack.layers = layers,
                                  !.shape_polygon = poly,
                                  !.padstack.copper_layers[1].size = geom[1],
                                  !.padstack.copper_layers[1].trapezoid_delta = geom[2]] :
        shape \in RecognisedShapes \cup {"PSS_UNKNOWN"},
        type \in {"PT_SMD", "PT_PTH", "PT_NPTH"},
        layers \in SUBSET {BL_F_Cu, BL_B_Cu},
        poly \in {None, PolygonWithHoles(<<PointNode(1, 2), ArcNode, PointNode(3, 4)>>)},
        geom \in PadGeometries}

\* the tracks and vias parse_tracks is called on, told apart by their place
TrackPlaces ==
    ({"Track", "ArcTrack"} \X {BL_F_Cu, BL_B_Cu, BL_In1_Cu})
    \cup ({"Via"} \X {{BL_F_Cu, BL_B_Cu}, {BL_F_Cu, BL_In1_Cu}, {BL_B_Cu}, {BL_In1_Cu}})
    \cup ({"MaskedVia"} \X {{BL_F_Cu, BL_In1_Cu, BL_B_Cu}})
TrackLists == UNION {[1..n -> TrackPlaces] : n \in 0..MaxTracks}
TracksOf(places) ==
    [i \in 1..Len(places) |->
        IF places[i][1] = "Track" THEN Track(places[i][2], i)
        ELSE IF places[i][1] = "ArcTrack" THEN ArcTrack(places[i][2], i)
        ELSE Via(places[i][2], places[i][1] = "MaskedVia", i)]

\* the zones parse_zones is called on, told apart by their place
ZonePlaces ==
    {<<TRUE, FALSE>>, <<FALSE, FALSE>>, <<TRUE, TRUE>>}
    \X {<<BL_F_Cu>>, <<BL_F_Cu, BL_B_Cu>>, <<BL_B_Cu, BL_F_Cu>>, <<BL_In1_Cu, BL_B_Cu>>}
    \X {{}, {BL_F_Cu}, {BL_F_Cu, BL_B_Cu}}
ZoneLists == UNION {[1..n -> ZonePlaces] : n \in 0..MaxZones}
ZonesOf(places) ==
    [i \in 1..Len(places) |->
        Zone(places[i][1][1], places[i][1][2], places[i][2], places[i][3], i)]

\* a parser constructed, no method called yet
InitCalls ==
    /\ board = BoardOf(<<>>, FALSE)
    /\ footprints = <<>>
    /\ config \in {c \in Configs : c.include_tracks}
    /\ pc = "idle"
    /\ call = [method |-> "none"]
    /\ drawings = <<>>
    /\ edges = <<>>
    /\ bbox = None
    /\ pcbdata = None
    /\ ret = NotReturned
    /\ log = <<>>

\* parse_shape(d)
CallParseShape ==
    /\ pc = "idle"
    /\ \E d \in ShapeInputs :
          /\ call' = [method |-> "parse_shape", arg |-> d]
          /\ ret' = parse_shape(d).ret
          /\ log' = log \o parse_shape(d).log
    /\ pc' = "returned"
    /\ UNCHANGED <<board, footprints, config, drawings, edges, bbox, pcbdata>>

\* parse_pad(pad)
CallParsePad ==
    /\ pc = "idle"
    /\ \E pad \in PadInputs :
          /\ call' = [method |-> "parse_pad", arg |-> pad]
          /\ ret' = parse_pad(pad, config).ret
          /\ log' = log \o parse_pad(pad, config).log
    /\ pc' = "returned"
    /\ UNCHANGED <<board, footprints, config, drawings, edges, bbox, pcbdata>>

\* parse_tracks(tracks)
CallParseTracks ==
    /\ pc = "idle"
    /\ \E places \in TrackLists :
          /\ call' = [method |-> "parse_tracks", arg |-> TracksOf(places)]
          /\ ret' = parse_tracks(TracksOf(places), config).ret
          /\ log' = log \o parse_tracks(TracksOf(places), config).log
    /\ pc' = "returned"
    /\ UNCHANGED <<board, footprints, config, drawings, edges, bbox, pcbdata>>

\* parse_zones(zones)
CallParseZones ==
    /\ pc = "idle"
    /\ \E places \in ZoneLists :
          /\ call' = [method |-> "parse_zones", arg |-> ZonesOf(places)]
          /\ ret' = parse_zones(ZonesOf(places), config).ret
          /\ log' = log \o parse_zones(ZonesOf(places), config).log
    /\ pc' = "returned"
    /\ UNCHANGED <<board, footprints, config, drawings, edges, bbox, pcbdata>>

NextCalls == CallParseShape \/ CallParsePad \/ CallParseTracks \/ CallParseZones

SpecCalls == InitCalls /\ [][NextCalls]_vars

\* ------------------------------------------------ claims C6, C7, C9 and C10

\* a method called alone has returned
Returned(method) == pc = "returned" /\ call.method = method

\* the number of arc nodes of an outline
ArcNodes(nodes) == Cardinality({i \in 1..Len(nodes) : nodes[i].kind = "arc"})

\* the sum of a sequence of naturals
RECURSIVE Sum(_)
Sum(ns) == IF ns = <<>> THEN 0 ELSE Head(ns) + Sum(Tail(ns))

\* the arc nodes parse_shape walks for a drawable: those of the outlines of a
\* polygon, or of the filled polygons a text is rendered as
WalkedArcNodes(d) ==
    IF d.kind = "BoardPolygon"
    THEN Sum([i \in 1..Len(d.polygons) |-> ArcNodes(d.polygons[i].outline)])
    ELSE IF d.kind \in TextClasses \cup {"Field"}
    THEN LET sh == IF d.kind = "Field" THEN d.text.shapes ELSE d.shapes
         IN  Sum([i \in 1..Len(sh) |->
                    IF sh[i].kind = "Polygon" THEN ArcNodes(sh[i].polygons[1].outline) ELSE 0])
    ELSE 0

\* the type tag that names a drawable class in the data model of the document
TagOfClass(kind) ==
    IF kind = "BoardSegment" THEN "segment"
    ELSE IF kind = "BoardCircle" THEN "circle"
    ELSE IF kind = "BoardArc" THEN "arc"
    ELSE IF kind = "BoardPolygon" THEN "polygon"
    ELSE IF kind = "BoardBezier" THEN "curve"
    ELSE IF kind = "BoardRectangle" THEN "polygon"
    ELSE "text"

\* C6 as stated: for a supported class parse_shape returns a Drawing whose
\* type tag names the class and logs nothing; for any other class it returns
\* None and logs one info diagnostic
C6_TypeTagNamesKindAndNoLog ==
    Returned("parse_shape") =>
        IF call.arg.kind \in SupportedClasses
        THEN /\ ret # None
             /\ HasKey(ret, "type")
             /\ ret.type = TagOfClass(call.arg.kind)
             /\ log = <<>>
        ELSE /\ ret = None
             /\ Len(log) = 1
             /\ log[1].level = "info"

\* C6, amended: parse_shape is total.  For a segment, circle, arc, polygon,
\* Bezier or rectangle it returns a Drawing tagged segment, circle, arc,
\* polygon, curve, polygon; for a text, a text box or a field it returns a
\* Drawing without a type tag, a stroke path or a list of polygons.  For these
\* classes it emits no info diagnostic: it logs one warning per arc node of
\* the polygon outlines it walks, and nothing else.  For any other class it
\* returns None and emits exactly one diagnostic, at info level.
C6_ShapeTaggedTextUntagged ==
    Returned("parse_shape") =>
        IF call.arg.kind \in SupportedClasses
        THEN /\ ret # None
             /\ call.arg.kind \in ShapeClasses =>
                   HasKey(ret, "type") /\ ret.type = TagOfClass(call.arg.kind)
             /\ call.arg.kind \notin ShapeClasses =>
                   /\ ~HasKey(ret, "type")
                   /\ DOMAIN ret \in {{"thickness", "svgpath"}, {"polygons"}}
             /\ Len(log) = WalkedArcNodes(call.arg)
             /\ \A i \in 1..Len(log) : log[i].level = "warn"
        ELSE /\ ret = None
             /\ Len(log) = 1
             /\ log[1].level = "info"

\* C6, witness: a text box rendered as a stroke and a polygon with an arc node
\* comes back as a stroke path without a type tag, one warning logged
C6_Witness ==
    /\ Returned("parse_shape")
    /\ call.arg.kind = "BoardTextBox"
    /\ ret # None
    /\ DOMAIN ret = {"thickness", "svgpath"}
    /\ Len(log) = 1
    /\ log[1].level = "warn"

\* the records a method called alone has emitted
EmittedRecords ==
    IF Returned("parse_pad") THEN (IF ret = None THEN {} ELSE {ret})
    ELSE IF Returned("parse_tracks") \/ Returned("parse_zones")
    THEN {ret.F[i] : i \in 1..Len(ret.F)} \cup {ret.B[i] : i \in 1..Len(ret.B)}
    ELSE {}

\* C7 as stated: a pad, track, arc track, via or zone record has a net field
\* exactly when include_nets is on
C7_NetIffIncludeNets ==
    \A rec \in EmittedRecords : HasKey(rec, "net") <=> config.include_nets

\* the part of C7 the code keeps: every record but a via's (a via's start is
\* its end) has a net field exactly when include_nets is on
C7_NetIffIncludeNetsButVias ==
    \A rec \in EmittedRecords :
        (Returned("parse_tracks") /\ HasKey(rec, "start") /\ rec.start = rec.end)
        \/ (HasKey(rec, "net") <=> config.include_nets)

\* the places of the tracks appended to the list of a layer, in input order
TrackPlacesOn(tracks, layer) ==
    SelectSeq([i \in 1..Len(tracks) |-> i],
              LAMBDA i : IF tracks[i].kind = "Via"
                         THEN layer \in tracks[i].padstack.layers
                         ELSE tracks[i].layer = layer)

\* a record of parse_tracks is the record of track t
IsRecordOf(rec, t) ==
    IF t.kind = "Via"
    THEN /\ HasKey(rec, "start") /\ HasKey(rec, "end")
         /\ rec.start = <<Scaled(t.position[1], -6), Scaled(t.position[2], -6)>>
         /\ rec.end = rec.start
         /\ rec.width = Scaled(t.padstack.copper_layers[1].size[1], -6)
    ELSE IF t.kind = "ArcTrack"
    THEN /\ HasKey(rec, "center") /\ ~HasKey(rec, "start")
         /\ rec.center = <<Scaled(t.center[1], -6), Scaled(t.center[2], -6)>>
         /\ rec.radius = Scaled(t.radius, -6)
         /\ rec.width = Scaled(t.width, -6)
    ELSE /\ HasKey(rec, "start") /\ ~HasKey(rec, "center")
         /\ rec.start = <<Scaled(t.start[1], -6), Scaled(t.start[2], -6)>>
         /\ rec.end = <<Scaled(t.end[1], -6), Scaled(t.end[2], -6)>>
         /\ rec.width = Scaled(t.width, -6)

\* a list of parse_tracks holds the records of the tracks at the places given,
\* in that order, and nothing else
HoldsTracks(list, tracks, places) ==
    /\ Len(list) = Len(places)
    /\ \A j \in 1..Len(places) : IsRecordOf(list[j], tracks[places[j]])

\* C9: the F list holds, in input order, one record for each via whose
\* padstack has front copper and each track or arc track on front copper, and
\* nothing else; the B list likewise for back copper
C9_TracksBucketedByLayerInOrder ==
    Returned("parse_tracks") =>
        /\ HoldsTracks(ret.F, call.arg, TrackPlacesOn(call.arg, BL_F_Cu))
        /\ HoldsTracks(ret.B, call.arg, TrackPlacesOn(call.arg, BL_B_Cu))

\* C9, witness: a via through front and back copper, a track on an inner
\* layer, an arc track on back copper: the via is in both lists with the same
\* start, end and width, the arc track after it in B, the inner track nowhere
C9_Witness ==
    /\ Returned("parse_tracks")
    /\ Len(call.arg) = 3
    /\ call.arg[1].kind = "Via" /\ {BL_F_Cu, BL_B_Cu} \subseteq call.arg[1].padstack.layers
    /\ call.arg[2].kind = "Track" /\ call.arg[2].layer = BL_In1_Cu
    /\ call.arg[3].kind = "ArcTrack" /\ call.arg[3].layer = BL_B_Cu
    /\ Len(ret.F) = 1 /\ Len(ret.B) = 2
    /\ ret.F[1].start = ret.B[1].start /\ ret.F[1].end = ret.B[1].end
    /\ ret.F[1].width = ret.B[1].width
    /\ HasKey(ret.B[2], "center")

\* the places of the zones that get a record in the list of a layer
ZonePlacesOn(zones, layer) ==
    SelectSeq([i \in 1..Len(zones) |-> i],
              LAMBDA i : /\ zones[i].filled
                         /\ ~zones[i].is_rule_area
                         /\ \E j \in 1..Len(zones[i].layers) : zones[i].layers[j] = layer
                         /\ layer \in DOMAIN zones[i].filled_polygons)

\* a list of parse_zones holds one record for each of the zones at the places
\* given, in that order, and nothing else
HoldsZones(list, zones, places, layer) ==
    /\ Len(list) = Len(places)
    /\ \A j \in 1..Len(places) :
          /\ list[j].width = Scaled(zones[places[j]].min_thickness, -6)
          /\ Len(list[j].polygons) = Len(zones[places[j]].filled_polygons[layer])

\* C10: a zone that is not filled or is a rule area gets no record; any other
\* zone gets one record in the F list exactly when front copper is among its
\* layers and its filled_polygons has front copper, and likewise in the B
\* list; the records are in the order of the zones
C10_ZonesFilteredAndBucketed ==
    Returned("parse_zones") =>
        /\ HoldsZones(ret.F, call.arg, ZonePlacesOn(call.arg, BL_F_Cu), BL_F_Cu)
        /\ HoldsZones(ret.B, call.arg, ZonePlacesOn(call.arg, BL_B_Cu), BL_B_Cu)

\* C10, witness: a filled rule area on front copper gets no record, and the
\* zone after it, on back and front copper and filled on front copper only,
\* gets its record in the F list and none in the B list
C10_Witness ==
    /\ Returned("parse_zones")
    /\ Len(call.arg) = 2
    /\ call.arg[1].filled /\ call.arg[1].is_rule_area
    /\ BL_F_Cu \in DOMAIN call.arg[1].filled_polygons
    /\ call.arg[2].filled /\ ~call.arg[2].is_rule_area
    /\ call.arg[2].layers = <<BL_B_Cu, BL_F_Cu>>
    /\ DOMAIN call.arg[2].filled_polygons = {BL_F_Cu}
    /\ Len(ret.F) = 1 /\ ret.B = <<>>
    /\ ret.F[1].width = Scaled(call.arg[2].min_thickness, -6)

\* -------------------------------------------------------------- claim C11

\* the places in the log of the info entries of parse_pad for an unknown shape
UnsupportedPadLogs ==
    {i \in 1..Len(log) : log[i] = LogEntry("info", "Unsupported pad shape, skipping.")}

\* C11: parse_footprints emits no null pad; of every footprint, the emitted
\* pads are as many as the input pads of a recognised shape code and come from
\* exactly those pads, and every input pad of an unrecognised shape code has
\* one info entry in the log
C11_UnsupportedPadsOmittedAndLogged ==
    FootprintsReturned =>
        /\ \A k \in 1..Len(ret.list) :
              LET f == footprints[k]
                  pads == ret.list[k].pads
              IN  /\ \A i \in 1..Len(pads) : pads[i] # None /\ HasKey(pads[i], "shape")
                  /\ Len(pads) = Cardinality(RecognisedPads(f))
                  /\ {InputPlace(f, pads[i]) : i \in 1..Len(pads)} = RecognisedPads(f)
        /\ Cardinality(UnsupportedPadLogs)
             = Cardinality({<<k, i>> \in (1..Len(footprints)) \X (1..MaxPads) :
                              /\ i <= Len(footprints[k].definition.pads)
                              /\ i \notin RecognisedPads(footprints[k])})

\* C11, witness: of three pads the second has an unknown shape code; the first
\* and the third are emitted and one info entry is in the log
C11_Witness ==
    /\ FootprintsReturned
    /\ Len(footprints[1].definition.pads) = 3
    /\ RecognisedPads(footprints[1]) = {1, 3}
    /\ Len(ret.list[1].pads) = 2
    /\ {InputPlace(footprints[1], ret.list[1].pads[i]) : i \in 1..2} = {1, 3}
    /\ Cardinality(UnsupportedPadLogs) = 1

\* -------------------------------------------------------------- claim C12

\* the bounding boxes of the drawables of the board on Edge.Cuts: board
\* shapes, board text, footprint texts and fields, footprint definition shapes
EdgeBoxes ==
    {BoardDrawables[i].bounding_box :
        i \in {j \in 1..Len(BoardDrawables) : BoardDrawables[j].layer = BL_Edge_Cuts}}

\* the least and the greatest of a non-empty set of integers
MinOf(S) == CHOOSE x \in S : \A y \in S : x <= y
MaxOf(S) == CHOOSE x \in S : \A y \in S : x >= y

\* C12: the edges_bbox of the document parse returns is the union of the boxes
\* of all Edge.Cuts drawables, of the board and of the footprints, whatever
\* their order: minx and miny are the least left and top, maxx and maxy the
\* greatest right and bottom, in mm; with one such drawable it is its box
C12_EdgesBboxIsUnionOfEdgeBoxes ==
    ReturnedDocument =>
        /\ EdgeBoxes # {}
        /\ ret.pcbdata.edges_bbox
             = [minx |-> Scaled(MinOf({b.pos[1] : b \in EdgeBoxes}), -6),
                miny |-> Scaled(MinOf({b.pos[2] : b \in EdgeBoxes}), -6),
                maxx |-> Scaled(MaxOf({b.pos[1] + b.size[1] : b \in EdgeBoxes}), -6),
                maxy |-> Scaled(MaxOf({b.pos[2] + b.size[2] : b \in EdgeBoxes}), -6)]
        /\ \A b \in EdgeBoxes :
              EdgeBoxes = {b} =>
                 ret.pcbdata.edges_bbox
                   = [minx |-> Scaled(b.pos[1], -6), miny |-> Scaled(b.pos[2], -6),
                      maxx |-> Scaled(b.pos[1] + b.size[1], -6),
                      maxy |-> Scaled(b.pos[2] + b.size[2], -6)]

\* C12, witness: the outline of the board comes first and a definition shape
\* of a footprint, on Edge.Cuts too, comes later; the least corner is of the
\* footprint's shape and the greatest of the outline
C12_Witness ==
    /\ ReturnedDocument
    /\ board.shapes # <<>> /\ board.shapes[1] = Outline
    /\ \E i \in 1..Len(DefinitionShapes) :
          /\ DefinitionShapes[i].layer = BL_Edge_Cuts
          /\ ret.pcbdata.edges_bbox.minx = Scaled(DefinitionShapes[i].bounding_box.pos[1], -6)
          /\ ret.pcbdata.edges_bbox.minx # Scaled(Outline.bounding_box.pos[1], -6)
    /\ ret.pcbdata.edges_bbox.maxx
         = Scaled(Outline.bounding_box.pos[1] + Outline.bounding_box.size[1], -6)

\* -------------------------------------------------------------- claim C13

\* the corners of a contour in winding order, as the signs of x and y
CornerSigns == << <<1, 1>>, <<0 - 1, 1>>, <<0 - 1, 0 - 1>>, <<1, 0 - 1>> >>

\* half of v nm, in mm
HalfMm(v) == Scaled(5 * v, -7)

\* the contour of a trapezoid of the size and delta given, in nm: corner
\* (sx, sy) is at (sx * size.x / 2 + t * delta.y / 2, sy * size.y / 2 - t * delta.x / 2)
\* with t = sx * sy
TrapezoidContour(size, delta) ==
    [k \in 1..4 |->
        LET sx == CornerSigns[k][1]
            sy == CornerSigns[k][2]
        IN  <<HalfMm(sx * size[1] + sx * sy * delta[2]),
              HalfMm(sy * size[2] - sx * sy * delta[1])>>]

\* C13: parse_pad emits shape "custom" for a pad of padstack shape trapezoid or
\* custom; for a trapezoid the polygons are one contour of four corners
\* (+-size.x/2 +- delta.y/2, +-size.y/2 -+ delta.x/2) in winding order, which
\* for delta (0, 0) are the corners (+-size.x/2, +-size.y/2) of the rectangle
C13_TrapezoidAndCustomEmitCustom ==
    Returned("parse_pad") =>
        LET stack_layer == call.arg.padstack.copper_layers[1]
        IN  /\ stack_layer.shape \in {"PSS_TRAPEZOID", "PSS_CUSTOM"} =>
                 /\ ret # None
                 /\ ret.shape = "custom"
                 /\ HasKey(ret, "polygons")
            /\ stack_layer.shape = "PSS_TRAPEZOID" =>
                 /\ ret.polygons
                      = <<TrapezoidContour(stack_layer.size, stack_layer.trapezoid_delta)>>
                 /\ stack_layer.trapezoid_delta = <<0, 0>> =>
                      ret.polygons
                        = << [k \in 1..4 |->
                                <<HalfMm(CornerSigns[k][1] * stack_layer.size[1]),
                                  HalfMm(CornerSigns[k][2] * stack_layer.size[2])>>] >>

\* C13, witness: a trapezoid of 2 mm by 1 mm with delta (0.2 mm, 0.4 mm) is
\* emitted as custom, its first corner at (1.2 mm, 0.4 mm) and its second at
\* (-1.2 mm, 0.6 mm)
C13_Witness ==
    /\ Returned("parse_pad")
    /\ call.arg.padstack.copper_layers[1].shape = "PSS_TRAPEZOID"
    /\ call.arg.padstack.copper_layers[1].size = <<2000000, 1000000>>
    /\ call.arg.padstack.copper_layers[1].trapezoid_delta = <<200000, 400000>>
    /\ ret.shape = "custom"
    /\ Len(ret.polygons) = 1 /\ Len(ret.polygons[1]) = 4
    /\ ret.polygons[1][1] = <<Scaled(12000000, -7), Scaled(4000000, -7)>>
    /\ ret.polygons[1][2] = <<Scaled(0 - 12000000, -7), Scaled(6000000, -7)>>

====
